---- MODULE Spec2Model ----
(***************************************************************************)
(* Model of netCDF-viewer: the CSV difference parser                       *)
(* (_parse_csv_for_summary_and_diffs), the comparison orchestrator         *)
(* (run_comparison) and the Compare button / CompareWorker cycle of        *)
(* MainWindow.                                                             *)
(*                                                                         *)
(* Text is a sequence of one-character strings, so that strip(), `in`,     *)
(* lower(), isdigit() and int() are computed the way Python computes them. *)
(***************************************************************************)
EXTENDS Integers, Sequences, FiniteSets, TLC

\* ------------------------------------------------------------------ bounds

\* Largest number of data rows (rows after the header) of a CSV file.
MaxRows == 2

\* ------------------------------------------------------------------- text

\* U+00B2 SUPERSCRIPT TWO, one character: str.isdigit() accepts it, int() does not.
Sup2 == "SUP2"

AsciiDigits == <<"0", "1", "2", "3", "4", "5", "6", "7", "8", "9">>

IsAsciiDigit(c) == \E i \in 1..10 : AsciiDigits[i] = c

DigitVal(c) == (CHOOSE i \in 1..10 : AsciiDigits[i] = c) - 1

IsSpace(c) == c = " "

\* str.strip(): leading and trailing whitespace removed.
Strip(s) ==
    LET keep == {i \in 1..Len(s) : ~IsSpace(s[i])}
    IN  IF keep = {} THEN <<>>
        ELSE LET lo == CHOOSE i \in keep : \A j \in keep : i <= j
                 hi == CHOOSE i \in keep : \A j \in keep : i >= j
             IN  SubSeq(s, lo, hi)

\* `sub in s` on Python strings.
Contains(s, sub) ==
    \E i \in 0..(Len(s) - Len(sub)) : SubSeq(s, i + 1, i + Len(sub)) = sub

LowerChar(c) ==
    CASE c = "A" -> "a"
      [] c = "T" -> "t"
      [] OTHER -> c

\* str.lower()
Lower(s) == [i \in 1..Len(s) |-> LowerChar(s[i])]

\* str.isdigit(): non-empty and every character has the Unicode digit property
\* (the ASCII digits, and also characters such as U+00B2).
IsDigit(s) == Len(s) > 0 /\ \A i \in 1..Len(s) : IsAsciiDigit(s[i]) \/ s[i] = Sup2

RECURSIVE DecimalVal(_)
DecimalVal(s) ==
    IF s = <<>> THEN 0
    ELSE 10 * DecimalVal(SubSeq(s, 1, Len(s) - 1)) + DigitVal(s[Len(s)])

IsDecimal(s) == Len(s) > 0 /\ \A i \in 1..Len(s) : IsAsciiDigit(s[i])

\* int(s) succeeds: surrounding whitespace, an optional sign, decimal digits.
IntOk(s) ==
    LET t == Strip(s)
    IN  /\ Len(t) > 0
        /\ IF t[1] \in {"-", "+"} THEN IsDecimal(Tail(t)) ELSE IsDecimal(t)

\* int(s) when it succeeds.
IntVal(s) ==
    LET t == Strip(s)
    IN  IF t[1] = "-" THEN 0 - DecimalVal(Tail(t))
        ELSE IF t[1] = "+" THEN DecimalVal(Tail(t))
        ELSE DecimalVal(t)

\* ----------------------------------------------------- parser constants

DiffMarker == <<"*", "*", "*">>

TotalPrefix == <<"T", "o", "t", "a", "l", " ", "#", " ", "o", "f", " ">>
VariablesWord == <<"v", "a", "r", "i", "a", "b", "l", "e", "s">>
GroupsWord == <<"g", "r", "o", "u", "p", "s">>
SharedWord == <<"s", "h", "a", "r", "e", "d", " ">>
NonSharedWord == <<"n", "o", "n", "-">> \o SharedWord

KeySharedVars == TotalPrefix \o SharedWord \o VariablesWord
KeyNonSharedVars == TotalPrefix \o NonSharedWord \o VariablesWord
KeySharedGroups == TotalPrefix \o SharedWord \o GroupsWord
KeyNonSharedGroups == TotalPrefix \o NonSharedWord \o GroupsWord

AttributeWord == <<"a", "t", "t", "r", "i", "b", "u", "t", "e">>

LabelDtype == <<"d", "t", "y", "p", "e">>
LabelDimensions == <<"d", "i", "m", "e", "n", "s", "i", "o", "n", "s">>
LabelShape == <<"s", "h", "a", "p", "e">>
LabelChunksize == <<"c", "h", "u", "n", "k", "s", "i", "z", "e">>

StructuralLabels == {LabelDtype, LabelDimensions, LabelShape, LabelChunksize}

\* -------------------------------------------------------------- CSV input

V(c) == <<c>>

Units == <<"u", "n", "i", "t", "s">>

\* The rows csv.reader can yield for a report: blank lines, short rows, rows
\* with and without the marker column, summary rows with good and bad numbers.
RowSet ==
    { <<>>,
      <<KeyNonSharedVars, V("7")>>,
      <<Units, V("m"), <<"k", "m">>, DiffMarker>>,
      <<LabelDtype, V("i"), V("f"), DiffMarker>>,
      <<<<" ">> \o LabelShape \o <<" ">>, <<" ", "3">>, <<"4", " ">>, <<" ">> \o DiffMarker \o <<" ">>>>,
      <<Units, V("m"), V("m")>>,
      <<LabelChunksize, V("1"), V("2"), <<"*", "*">>>>,
      <<<<"A">> \o Tail(AttributeWord), V("a"), V("b"), DiffMarker>>,
      <<KeySharedVars, V("5"), <<>>, <<>>>>,
      <<KeySharedVars \o <<":">>, V("x"), <<"-", "4">>, DiffMarker>>,
      <<KeySharedVars, V("x"), V("y")>>,
      <<KeyNonSharedVars, V("3"), V("2"), <<>>>>,
      <<KeyNonSharedVars, V("x"), <<"1", "2">>>>,
      <<KeyNonSharedVars, V(Sup2), V("2")>>,
      <<KeySharedGroups, V("1"), V("6"), DiffMarker>>,
      <<KeySharedGroups, <<>>, V(Sup2)>>,
      <<KeyNonSharedGroups, V("4"), V("x"), <<>>>>,
      <<KeyNonSharedGroups, V("3"), V(Sup2)>> }

\* The first row of a report: the usual header, or a row that would count
\* if it were not skipped.
HeaderSet ==
    { <<<<"I", "n", "f", "o">>, V("A"), V("B"), <<>>>>,
      <<KeyNonSharedGroups, V("9"), V("9"), DiffMarker>> }

DataRows == UNION {[1..n -> RowSet] : n \in 0..MaxRows}

\* A report file as csv.reader sees it: no row at all, or a header and data rows.
Files == {<<>>} \cup {<<h>> \o d : h \in HeaderSet, d \in DataRows}

\* ------------------------------------------------------------------ state

VARIABLES
    file,        \* the rows csv.reader yields for csv_path
    pos,         \* index in file of the next row the reader yields
    pc,          \* "open" | "rows" | "done" | "raised"
    var_left, var_right, var_shared,
    grp_left, grp_right, grp_shared,
    attr_diffs,
    details,
    ret          \* the returned tuple, once pc = "done"

parserVars == <<file, pos, pc, var_left, var_right, var_shared,
                grp_left, grp_right, grp_shared, attr_diffs, details, ret>>

\* run_comparison
VARIABLES
    fs,           \* the filesystem: path -> what the file holds, or Absent
    fs0,          \* the filesystem when run_comparison was called
    file_a, file_b,
    options,      \* the ComparisonOptions argument
    rpc,          \* the statement run_comparison is at
    report_txt, report_csv,
    calls,        \* the calls of ncompare.compare made so far, in order
    total,
    result,       \* the ComparisonResult being built
    run_exc       \* the exception that left run_comparison, or NoExc

runVars == <<fs, fs0, file_a, file_b, options, rpc, report_txt, report_csv,
             calls, total, result, run_exc>>

\* MainWindow, CompareWorker and the worker threads
VARIABLES
    file_a_edit, file_b_edit,      \* the text of the two line edits
    only_differences_cb, include_attributes_cb, include_chunking_cb,
    compare_btn_enabled,
    progress_bar_visible,
    summary_labels,                \* what the two summary labels show
    summary_table_rows,            \* summary_table.rowCount()
    diff_text,
    modal,                         \* the modal dialog a handler is inside of
    modal_message,
    worker,                        \* self._worker
    thread,                        \* self._thread: the run it was made for
    nruns,                         \* the QThread objects _on_compare has created
    run_state,                     \* per run: where its CompareWorker.run is
    outcome,                       \* per run: what run_comparison did
    emitted,                       \* per run: the signals the worker emitted
    thread_state,                  \* per run: its QThread
    uiq,                           \* the UI thread's queue of posted slot calls
    handled                        \* the worker signals the UI has handled

guiVars == <<file_a_edit, file_b_edit, only_differences_cb, include_attributes_cb,
             include_chunking_cb, compare_btn_enabled, progress_bar_visible,
             summary_labels, summary_table_rows, diff_text, modal, modal_message,
             worker, thread, nruns, run_state, outcome, emitted, thread_state,
             uiq, handled>>

vars == <<parserVars, runVars, guiVars>>

notParser == <<runVars, guiVars>>
notRun == <<parserVars, guiVars>>
notGui == <<parserVars, runVars>>

NoReturn == [returned |-> FALSE]

\* ----------------------------------------- _parse_csv_for_summary_and_diffs

\* RowTooShort with a seeded fault: the column test off by one.
RowTooShortOffByOne(row) == Len(row) < 2

\* len(row) < 3: the row is skipped.
RowTooShort(row) == Len(row) < 3

Info(row) == Strip(row[1])
ValA(row) == Strip(row[2])
ValB(row) == Strip(row[3])

\* marker = row[3].strip() if len(row) > 3 else ""
Marker(row) == IF Len(row) > 3 THEN Strip(row[4]) ELSE <<>>

\* IsDetail with a seeded fault: the marker compared without strip().
IsDetailUnstripped(row) == Len(row) > 3 /\ row[4] = DiffMarker

\* if marker == "***"
IsDetail(row) == Marker(row) = DiffMarker

\* The condition under which a detail row increments attr_diffs.
CountsAsAttribute(info) ==
    Contains(Lower(info), AttributeWord) \/ info \notin StructuralLabels

\* var_shared = int(val_a) if val_a.isdigit() else int(val_b), under
\* try/except ValueError: pass.
SharedUpdate(old, val_a, val_b) ==
    IF IsDigit(val_a)
    THEN (IF IntOk(val_a) THEN IntVal(val_a) ELSE old)
    ELSE (IF IntOk(val_b) THEN IntVal(val_b) ELSE old)

\* NonSharedUpdate with a seeded fault: a value that is not all digits skips the update
\* instead of storing 0.
NonSharedUpdateKeepsPrior(old_left, old_right, val_a, val_b) ==
    IF IsDigit(val_a) /\ ~IntOk(val_a)
    THEN <<old_left, old_right>>
    ELSE LET left == IF IsDigit(val_a) THEN IntVal(val_a) ELSE old_left
         IN  IF IsDigit(val_b) /\ ~IntOk(val_b)
             THEN <<left, old_right>>
             ELSE <<left, IF IsDigit(val_b) THEN IntVal(val_b) ELSE old_right>>

\* var_left = int(val_a) if val_a.isdigit() else 0
\* var_right = int(val_b) if val_b.isdigit() else 0
\* under one try/except ValueError: pass; the pair <<left, right>> after it.
NonSharedUpdate(old_left, old_right, val_a, val_b) ==
    IF IsDigit(val_a) /\ ~IntOk(val_a)
    THEN <<old_left, old_right>>
    ELSE LET left == IF IsDigit(val_a) THEN IntVal(val_a) ELSE 0
         IN  IF IsDigit(val_b) /\ ~IntOk(val_b)
             THEN <<left, old_right>>
             ELSE <<left, IF IsDigit(val_b) THEN IntVal(val_b) ELSE 0>>

\* int() raises ValueError somewhere in the row's four try blocks.
IntRaises(info, val_a, val_b) ==
    \/ /\ Contains(info, KeySharedVars) \/ Contains(info, KeySharedGroups)
       /\ IF IsDigit(val_a) THEN ~IntOk(val_a) ELSE ~IntOk(val_b)
    \/ /\ Contains(info, KeyNonSharedVars) \/ Contains(info, KeyNonSharedGroups)
       /\ \/ IsDigit(val_a) /\ ~IntOk(val_a)
          \/ IsDigit(val_b) /\ ~IntOk(val_b)

\* The exceptions the four `except` clauses catch.
Caught(exc) == exc = "ValueError"

\* The local variables of the function, as one record.
Locals(vl, vr, vs, gl, gr, gs, ad, dt, ex) ==
    [var_left |-> vl, var_right |-> vr, var_shared |-> vs,
     grp_left |-> gl, grp_right |-> gr, grp_shared |-> gs,
     attr_diffs |-> ad, details |-> dt, raised |-> ex]

InitLocals == Locals(0, 0, 0, 0, 0, 0, 0, <<>>, FALSE)

\* The body of `for row in reader` applied to the locals st.  Indexing a row
\* past its end raises IndexError, which nothing catches.
RowEffect(st, row) ==
    IF RowTooShort(row) THEN st
    ELSE IF Len(row) < 3 THEN [st EXCEPT !.raised = TRUE]
    ELSE LET info == Info(row)
             val_a == ValA(row)
             val_b == ValB(row)
             vars_ns == NonSharedUpdate(st.var_left, st.var_right, val_a, val_b)
             grps_ns == NonSharedUpdate(st.grp_left, st.grp_right, val_a, val_b)
         IN  [details |-> IF IsDetail(row)
                          THEN Append(st.details, <<info, val_a, val_b>>)
                          ELSE st.details,
              attr_diffs |-> IF IsDetail(row) /\ CountsAsAttribute(info)
                             THEN st.attr_diffs + 1
                             ELSE st.attr_diffs,
              var_shared |-> IF Contains(info, KeySharedVars)
                             THEN SharedUpdate(st.var_shared, val_a, val_b)
                             ELSE st.var_shared,
              var_left |-> IF Contains(info, KeyNonSharedVars)
                           THEN vars_ns[1] ELSE st.var_left,
              var_right |-> IF Contains(info, KeyNonSharedVars)
                            THEN vars_ns[2] ELSE st.var_right,
              grp_shared |-> IF Contains(info, KeySharedGroups)
                             THEN SharedUpdate(st.grp_shared, val_a, val_b)
                             ELSE st.grp_shared,
              grp_left |-> IF Contains(info, KeyNonSharedGroups)
                           THEN grps_ns[1] ELSE st.grp_left,
              grp_right |-> IF Contains(info, KeyNonSharedGroups)
                            THEN grps_ns[2] ELSE st.grp_right,
              raised |-> st.raised
                         \/ (IntRaises(info, val_a, val_b) /\ ~Caught("ValueError"))]

\* What the function returns as its seventh value.
ReturnedAttrCount(n_attr, dets) == Len(dets)

\* The tuple of the return statement.
ReturnValue(st) ==
    [returned |-> TRUE,
     var_left |-> st.var_left, var_right |-> st.var_right,
     var_shared |-> st.var_shared,
     grp_left |-> st.grp_left, grp_right |-> st.grp_right,
     grp_shared |-> st.grp_shared,
     attribute_difference_count |-> ReturnedAttrCount(st.attr_diffs, st.details),
     details |-> st.details]

\* The rows left to the loop once next(reader, None) has taken the first.
DataOf(f) == IF f = <<>> THEN <<>> ELSE Tail(f)

RECURSIVE ParseRows(_, _)
\* The row loop run over rows from the locals st.
ParseRows(st, rows) ==
    IF rows = <<>> THEN st
    ELSE ParseRows(RowEffect(st, Head(rows)), Tail(rows))

\* The function as a whole on the rows of a file: the locals at its end.
ParseCsv(f) == ParseRows(InitLocals, DataOf(f))

Cur == Locals(var_left, var_right, var_shared, grp_left, grp_right, grp_shared,
              attr_diffs, details, pc = "raised")

\* header = next(reader, None)
ReadHeader ==
    /\ pc = "open"
    /\ pc' = "rows"
    /\ pos' = IF Len(file) > 0 THEN 2 ELSE 1
    /\ UNCHANGED <<file, var_left, var_right, var_shared, grp_left, grp_right,
                   grp_shared, attr_diffs, details, ret>>
    /\ UNCHANGED notParser

\* One iteration of `for row in reader`.
ParseRow ==
    /\ pc = "rows"
    /\ pos <= Len(file)
    /\ pos' = pos + 1
    /\ LET n == RowEffect(Cur, file[pos])
       IN  /\ var_left' = n.var_left
           /\ var_right' = n.var_right
           /\ var_shared' = n.var_shared
           /\ grp_left' = n.grp_left
           /\ grp_right' = n.grp_right
           /\ grp_shared' = n.grp_shared
           /\ attr_diffs' = n.attr_diffs
           /\ details' = n.details
           /\ pc' = IF n.raised THEN "raised" ELSE pc
    /\ UNCHANGED <<file, ret>>
    /\ UNCHANGED notParser

\* The reader is exhausted: the return statement.
ParseReturn ==
    /\ pc = "rows"
    /\ pos > Len(file)
    /\ pc' = "done"
    /\ ret' = ReturnValue(Cur)
    /\ UNCHANGED <<file, pos, var_left, var_right, var_shared, grp_left,
                   grp_right, grp_shared, attr_diffs, details>>
    /\ UNCHANGED notParser

ParserInit ==
    /\ file \in Files
    /\ pos = 1
    /\ pc = "open"
    /\ var_left = 0 /\ var_right = 0 /\ var_shared = 0
    /\ grp_left = 0 /\ grp_right = 0 /\ grp_shared = 0
    /\ attr_diffs = 0
    /\ details = <<>>
    /\ ret = NoReturn

\* -------------------------------------------------------- run_comparison

\* Largest total-difference count ncompare.compare returns in the model.
MaxTotal == 1

Absent == "absent"
NoPath == "None"
NoExc == "none"

\* What a file can hold: a netCDF or an HDF5 dataset, something that is
\* neither, a CSV report or a text report written by ncompare.
DataKinds == {"netcdf", "hdf5"}

\* The CSV reports ncompare.compare can write.
CsvReports == {"csv header only", "csv summary", "csv details"}

UsualHeader == <<<<"I", "n", "f", "o">>, V("A"), V("B"), <<>>>>

\* open(csv_path, encoding="utf-8") and csv.reader on what a file holds: the
\* rows read, or the exception of decoding a dataset's bytes as UTF-8.
ReadCsv(content) ==
    IF content \in DataKinds THEN [raised |-> TRUE, rows |-> <<>>]
    ELSE [raised |-> FALSE,
          rows |->
            IF content = "csv header only" THEN <<UsualHeader>>
            ELSE IF content = "csv summary"
            THEN <<UsualHeader,
                   <<KeyNonSharedVars, V("3"), V("2"), <<>>>>,
                   <<KeySharedVars, V("5"), <<>>, <<>>>>>>
            ELSE IF content = "csv details"
            THEN <<UsualHeader,
                   <<Units, V("m"), <<"k", "m">>, DiffMarker>>,
                   <<KeySharedGroups, V("1"), V("6"), DiffMarker>>,
                   <<KeyNonSharedGroups, V("4"), V("1"), <<>>>>>>
            ELSE IF content = "text report" THEN <<<<V("m")>>, <<V("m")>>>>
            ELSE <<>>]
Paths == {"a.nc", "b.h5", "out.csv", "out.txt", "tmp.csv"}

\* tempfile.gettempdir() / f"ncompare_{uuid.uuid4().hex[:8]}.csv"
TempCsv == "tmp.csv"

\* ComparisonOptions(...): the frozen dataclass.
ComparisonOptions(only_diff, incl_attr, incl_chunk, text_path, csv_path) ==
    [only_differences |-> only_diff,
     include_attributes |-> incl_attr,
     include_chunking |-> incl_chunk,
     report_text_path |-> text_path,
     report_csv_path |-> csv_path]

OptionValues ==
    {ComparisonOptions(d, a, c, t, v) :
        d \in BOOLEAN, a \in BOOLEAN, c \in BOOLEAN,
        t \in {"", "out.txt", "b.h5"}, v \in {"", "out.csv", "a.nc"}}

\* ComparisonResult(): every field at its default.
DefaultResult ==
    [file_a_path |-> "", file_b_path |-> "",
     dimensions_a |-> "", dimensions_b |-> "",
     variables_a |-> "", variables_b |-> "",
     total_differences |-> 0,
     variables_only_in_a |-> 0, variables_only_in_b |-> 0,
     variables_shared |-> 0,
     groups_only_in_a |-> 0, groups_only_in_b |-> 0,
     groups_shared |-> 0,
     attribute_difference_count |-> 0,
     difference_details |-> <<>>,
     report_text_path |-> "", report_csv_path |-> ""]

\* CompareArgs with a seeded fault: show_chunks and show_attributes exchanged.
CompareArgsSwapped(path_a, path_b, opts, txt, csv) ==
    [path_a |-> path_a, path_b |-> path_b,
     only_diffs |-> opts.only_differences,
     no_color |-> TRUE,
     show_chunks |-> opts.include_attributes,
     show_attributes |-> opts.include_chunking,
     file_text |-> IF txt # NoPath THEN txt ELSE "",
     file_csv |-> IF csv # NoPath THEN csv ELSE "",
     file_xlsx |-> ""]

\* The arguments of the ncompare.compare call.
CompareArgs(path_a, path_b, opts, txt, csv) ==
    [path_a |-> path_a, path_b |-> path_b,
     only_diffs |-> opts.only_differences,
     no_color |-> TRUE,
     show_chunks |-> opts.include_chunking,
     show_attributes |-> opts.include_attributes,
     file_text |-> IF txt # NoPath THEN txt ELSE "",
     file_csv |-> IF csv # NoPath THEN csv ELSE "",
     file_xlsx |-> ""]

\* ncompare.compare writing its reports: the text report at file_text and the
\* CSV report at file_csv, each when the path is not empty and the call got
\* as far as writing it.
WriteReports(files, args, wrote_txt, wrote_csv, csv) ==
    [p \in Paths |->
        IF wrote_csv /\ args.file_csv = p THEN csv
        ELSE IF wrote_txt /\ args.file_text = p THEN "text report"
        ELSE files[p]]

Raise(exc) ==
    /\ rpc' = "raised"
    /\ run_exc' = exc

\* path_a = ensure_valid_path_exists(file_a)
EnsurePathA ==
    /\ rpc = "ensure_a"
    /\ IF fs[file_a] = Absent
       THEN Raise("path A not found")
       ELSE rpc' = "ensure_b" /\ UNCHANGED run_exc
    /\ UNCHANGED <<fs, fs0, file_a, file_b, options, report_txt, report_csv,
                   calls, total, result>>
    /\ UNCHANGED notRun

\* path_b = ensure_valid_path_exists(file_b)
EnsurePathB ==
    /\ rpc = "ensure_b"
    /\ IF fs[file_b] = Absent
       THEN Raise("path B not found")
       ELSE rpc' = "type_a" /\ UNCHANGED run_exc
    /\ UNCHANGED <<fs, fs0, file_a, file_b, options, report_txt, report_csv,
                   calls, total, result>>
    /\ UNCHANGED notRun

\* file_a_obj = validate_file_type(path_a)
ValidateTypeA ==
    /\ rpc = "type_a"
    /\ IF fs[file_a] \in DataKinds
       THEN rpc' = "type_b" /\ UNCHANGED run_exc
       ELSE Raise("file A type not supported")
    /\ UNCHANGED <<fs, fs0, file_a, file_b, options, report_txt, report_csv,
                   calls, total, result>>
    /\ UNCHANGED notRun

\* file_b_obj = validate_file_type(path_b); result = ComparisonResult(...)
ValidateTypeB ==
    /\ rpc = "type_b"
    /\ IF fs[file_b] \in DataKinds
       THEN /\ rpc' = "dims_a"
            /\ result' = [DefaultResult EXCEPT !.file_a_path = file_a,
                                               !.file_b_path = file_b]
            /\ UNCHANGED run_exc
       ELSE Raise("file B type not supported") /\ UNCHANGED result
    /\ UNCHANGED <<fs, fs0, file_a, file_b, options, report_txt, report_csv,
                   calls, total>>
    /\ UNCHANGED notRun

\* Getter with a seeded fault: the library's exception is swallowed and the
\* run goes on to the next statement.
GetterIgnoresFailure(at, field, path, next) ==
    /\ rpc = at
    /\ \E ok \in BOOLEAN :
          IF ok
          THEN /\ result' = [result EXCEPT ![field] = fs[path]]
               /\ UNCHANGED run_exc
          ELSE run_exc' = at /\ UNCHANGED result
    /\ rpc' = next
    /\ UNCHANGED <<fs, fs0, file_a, file_b, options, report_txt, report_csv,
                   calls, total>>
    /\ UNCHANGED notRun

\* One of the four read-only getter calls: it returns the file's summary, or
\* the library raises.
Getter(at, field, path, next) ==
    /\ rpc = at
    /\ \E ok \in BOOLEAN :
          IF ok
          THEN /\ rpc' = next
               /\ result' = [result EXCEPT ![field] = fs[path]]
               /\ UNCHANGED run_exc
          ELSE Raise(at) /\ UNCHANGED result
    /\ UNCHANGED <<fs, fs0, file_a, file_b, options, report_txt, report_csv,
                   calls, total>>
    /\ UNCHANGED notRun

\* result.dimensions_a = _dimensions_list(file_a_obj)
DimensionsA == Getter("dims_a", "dimensions_a", file_a, "dims_b")

\* result.dimensions_b = _dimensions_list(file_b_obj)
DimensionsB == Getter("dims_b", "dimensions_b", file_b, "vars_a")

\* result.variables_a = _collect_variables_with_shapes(file_a_obj)
VariablesA == Getter("vars_a", "variables_a", file_a, "vars_b")

\* result.variables_b = _collect_variables_with_shapes(file_b_obj)
VariablesB == Getter("vars_b", "variables_b", file_b, "reports")

\* report_txt, report_csv from the options; a temporary CSV path when the
\* caller gave none.
ChooseReports ==
    /\ rpc = "reports"
    /\ report_txt' = IF options.report_text_path # ""
                     THEN options.report_text_path ELSE NoPath
    /\ report_csv' = IF options.report_csv_path # ""
                     THEN options.report_csv_path ELSE TempCsv
    /\ rpc' = "compare"
    /\ UNCHANGED <<fs, fs0, file_a, file_b, options, calls, total, result, run_exc>>
    /\ UNCHANGED notRun

\* total = ncompare_compare(...): the library writes the reports it was given
\* paths for, then returns the total or raises.
Compare ==
    /\ rpc = "compare"
    /\ LET args == CompareArgs(file_a, file_b, options, report_txt, report_csv)
       IN  /\ calls' = Append(calls, args)
           /\ \E wrote_txt \in BOOLEAN, wrote_csv \in BOOLEAN, csv \in CsvReports :
                 fs' = WriteReports(fs, args, wrote_txt, wrote_csv, csv)
    /\ \/ \E n \in 0..MaxTotal :
             /\ total' = n
             /\ rpc' = "finish"
             /\ UNCHANGED run_exc
       \/ Raise("compare failed") /\ UNCHANGED total
    /\ UNCHANGED <<fs0, file_a, file_b, options, report_txt, report_csv, result>>
    /\ UNCHANGED notRun

\* MergedResult with a seeded fault: the returned tuple unpacked with the
\* two "only in" counts of each kind exchanged.
MergedResultSwapsSides(res, csv_path, st) ==
    [res EXCEPT
        !.report_csv_path = csv_path,
        !.variables_only_in_a = ReturnValue(st).var_right,
        !.variables_only_in_b = ReturnValue(st).var_left,
        !.variables_shared = ReturnValue(st).var_shared,
        !.groups_only_in_a = ReturnValue(st).grp_right,
        !.groups_only_in_b = ReturnValue(st).grp_left,
        !.groups_shared = ReturnValue(st).grp_shared,
        !.attribute_difference_count = ReturnValue(st).attribute_difference_count,
        !.difference_details = ReturnValue(st).details]

\* result.report_csv_path = report_csv and the eight-fold assignment from
\* the tuple _parse_csv_for_summary_and_diffs returned with the locals st.
MergedResult(res, csv_path, st) ==
    [res EXCEPT
        !.report_csv_path = csv_path,
        !.variables_only_in_a = ReturnValue(st).var_left,
        !.variables_only_in_b = ReturnValue(st).var_right,
        !.variables_shared = ReturnValue(st).var_shared,
        !.groups_only_in_a = ReturnValue(st).grp_left,
        !.groups_only_in_b = ReturnValue(st).grp_right,
        !.groups_shared = ReturnValue(st).grp_shared,
        !.attribute_difference_count = ReturnValue(st).attribute_difference_count,
        !.difference_details = ReturnValue(st).details]

\* result.total_differences = total; the CSV report parsed and merged when
\* report_csv exists; the text report recorded when it exists; return result.
\* An exception of reading or parsing the CSV file leaves run_comparison.
Finish ==
    /\ rpc = "finish"
    /\ LET exists == fs[report_csv] # Absent
           read == ReadCsv(fs[report_csv])
           st == ParseCsv(read.rows)
           counted == [result EXCEPT !.total_differences = total]
           merged == IF exists THEN MergedResult(counted, report_csv, st)
                     ELSE counted
       IN  IF exists /\ (read.raised \/ st.raised)
           THEN Raise("csv not readable") /\ result' = counted
           ELSE /\ result' = [merged EXCEPT
                                !.report_text_path =
                                    IF report_txt # NoPath /\ fs[report_txt] # Absent
                                    THEN report_txt ELSE @]
                /\ rpc' = "returned"
                /\ UNCHANGED run_exc
    /\ UNCHANGED <<fs, fs0, file_a, file_b, options, report_txt, report_csv,
                   calls, total>>
    /\ UNCHANGED notRun

\* The files on disk when run_comparison is called: each input is a dataset,
\* a file of another kind or missing; no report exists yet.
InitialFiles ==
    {[p \in Paths |-> IF p = "a.nc" THEN ka ELSE IF p = "b.h5" THEN kb ELSE Absent] :
        ka \in {"netcdf", "text", Absent}, kb \in {"hdf5", "text", Absent}}

RunInit ==
    /\ fs \in InitialFiles
    /\ fs0 = fs
    /\ file_a \in {"a.nc", "b.h5"}
    /\ file_b \in {"a.nc", "b.h5"}
    /\ options \in OptionValues
    /\ rpc = "ensure_a"
    /\ report_txt = NoPath
    /\ report_csv = NoPath
    /\ calls = <<>>
    /\ total = 0
    /\ result = DefaultResult
    /\ run_exc = NoExc

\* run_comparison is not running.
RunParked ==
    /\ fs = [p \in Paths |-> Absent]
    /\ fs0 = fs
    /\ file_a = "" /\ file_b = ""
    /\ options = ComparisonOptions(FALSE, TRUE, FALSE, "", "")
    /\ rpc = "parked"
    /\ report_txt = NoPath /\ report_csv = NoPath
    /\ calls = <<>>
    /\ total = 0
    /\ result = DefaultResult
    /\ run_exc = NoExc

\* The parser is not running.
ParserParked ==
    /\ file = <<>>
    /\ pos = 1
    /\ pc = "parked"
    /\ var_left = 0 /\ var_right = 0 /\ var_shared = 0
    /\ grp_left = 0 /\ grp_right = 0 /\ grp_shared = 0
    /\ attr_diffs = 0
    /\ details = <<>>
    /\ ret = NoReturn

\* ------------------------------------------- MainWindow and CompareWorker

\* Largest number of comparisons started in one session of the model.
MaxRuns == 2

RunIds == 1..MaxRuns

PathA == <<"a", ".", "n", "c">>
PathB == <<"b", ".", "h", "5">>

\* What run_comparison can do for a worker: return a ComparisonResult (with
\* the number of variables of the two files) or raise an exception (with
\* its str()).
Outcomes ==
    {[kind |-> "returns", id |-> "identical", rows |-> 0, message |-> ""],
     [kind |-> "returns", id |-> "different", rows |-> 2, message |-> ""],
     [kind |-> "raises", id |-> "", rows |-> 0, message |-> "file not found"],
     [kind |-> "raises", id |-> "", rows |-> 0, message |-> "compare failed"]}

NoOutcome == [kind |-> "none", id |-> "", rows |-> 0, message |-> ""]

NoWorker ==
    [run |-> 0, file_a |-> <<>>, file_b |-> <<>>,
     options |-> ComparisonOptions(FALSE, TRUE, FALSE, "", "")]

\* CompareWorker(file_a, file_b, options)
CompareWorker(run, fa, fb, opts) ==
    [run |-> run, file_a |-> fa, file_b |-> fb, options |-> opts]

\* SignalsOf with a seeded fault: the error signal is followed by finished as well.
SignalsOfBoth(out) ==
    IF out.kind = "returns"
    THEN <<[sig |-> "finished", result |-> out.id, rows |-> out.rows, message |-> ""]>>
    ELSE <<[sig |-> "error", result |-> "", rows |-> 0, message |-> out.message],
           [sig |-> "finished", result |-> "", rows |-> 0, message |-> ""]>>

\* CompareWorker.run's try/except: the signals emitted, in order, for what
\* run_comparison did.
SignalsOf(out) ==
    IF out.kind = "returns"
    THEN <<[sig |-> "finished", result |-> out.id, rows |-> out.rows, message |-> ""]>>
    ELSE <<[sig |-> "error", result |-> "", rows |-> 0, message |-> out.message]>>

\* The slot calls an emitted signal posts to the UI thread, in the order the
\* slots were connected: the window's handler, then the thread's quit.
PostedFor(run, signal) ==
    <<[slot |-> IF signal.sig = "finished"
                THEN "_on_compare_finished" ELSE "_on_compare_error",
       run |-> run, result |-> signal.result, rows |-> signal.rows,
       message |-> signal.message],
      [slot |-> "quit", run |-> run, result |-> "", rows |-> 0, message |-> ""]>>

RECURSIVE PostedForAll(_, _)
PostedForAll(run, signals) ==
    IF signals = <<>> THEN <<>>
    ELSE PostedFor(run, Head(signals)) \o PostedForAll(run, Tail(signals))

\* QThread.isRunning(): the thread was started and has not terminated.
ThreadAlive(i) == thread_state[i] \in {"running", "quitting"}

\* A QThread object was deleted while its thread was running: Qt's fatal
\* error has ended the process, and nothing of it takes another step.
Aborted == \E i \in RunIds : thread_state[i] = "destroyed"

\* The user can act on the main window: no modal dialog is open.
WindowAcceptsInput == modal = "none" /\ ~Aborted

\* _browse(file_a_edit): the dialog returns a path.
BrowseA ==
    /\ WindowAcceptsInput
    /\ file_a_edit' = PathA
    /\ UNCHANGED <<file_b_edit, only_differences_cb, include_attributes_cb,
                   include_chunking_cb, compare_btn_enabled, progress_bar_visible,
                   summary_labels, summary_table_rows, diff_text, modal,
                   modal_message, worker, thread, nruns, run_state, outcome,
                   emitted, thread_state, uiq, handled>>
    /\ UNCHANGED notGui

\* _browse(file_b_edit): the dialog returns a path.
BrowseB ==
    /\ WindowAcceptsInput
    /\ file_b_edit' = PathB
    /\ UNCHANGED <<file_a_edit, only_differences_cb, include_attributes_cb,
                   include_chunking_cb, compare_btn_enabled, progress_bar_visible,
                   summary_labels, summary_table_rows, diff_text, modal,
                   modal_message, worker, thread, nruns, run_state, outcome,
                   emitted, thread_state, uiq, handled>>
    /\ UNCHANGED notGui

\* The user ticks or unticks one of the three option checkboxes.
ToggleOption ==
    /\ WindowAcceptsInput
    /\ \/ /\ only_differences_cb' = ~only_differences_cb
          /\ UNCHANGED <<include_attributes_cb, include_chunking_cb>>
       \/ /\ include_attributes_cb' = ~include_attributes_cb
          /\ UNCHANGED <<only_differences_cb, include_chunking_cb>>
       \/ /\ include_chunking_cb' = ~include_chunking_cb
          /\ UNCHANGED <<only_differences_cb, include_attributes_cb>>
    /\ UNCHANGED <<file_a_edit, file_b_edit, compare_btn_enabled,
                   progress_bar_visible, summary_labels, summary_table_rows,
                   diff_text, modal, modal_message, worker, thread, nruns,
                   run_state, outcome, emitted, thread_state, uiq, handled>>
    /\ UNCHANGED notGui

\* BusyControls with a seeded fault: the Compare button is left enabled.
BusyControlsStillEnabled == [enabled |-> TRUE, progress |-> TRUE]

\* compare_btn.setEnabled(False); progress_bar.setVisible(True)
BusyControls == [enabled |-> FALSE, progress |-> TRUE]

\* compare_btn.setEnabled(True); progress_bar.setVisible(False)
IdleControls == [enabled |-> TRUE, progress |-> FALSE]

\* ClearedResults with a seeded fault: the table and the text are left as they are.
ClearedResultsKeepsData ==
    [labels |-> "running comparison", rows |-> summary_table_rows, text |-> diff_text]

\* _clear_results(): the labels, the table's row count and the text after it.
ClearedResults ==
    [labels |-> "running comparison", rows |-> 0, text |-> ""]

\* _display_result(result): the labels, the table's row count and the text
\* after it.
DisplayedResult(res, rows) ==
    [labels |-> res, rows |-> rows, text |-> res]

\* PathsMissing with a seeded fault: `and` in place of `or`.
PathsMissingOnlyWhenBoth(fa, fb) == fa = <<>> /\ fb = <<>>

\* if not file_a or not file_b
PathsMissing(fa, fb) == fa = <<>> \/ fb = <<>>

\* _on_compare, the Compare button's clicked slot (a disabled button emits no
\* clicked).  With a path missing it opens the warning dialog; otherwise it
\* starts a worker on a new thread.  Assigning the new QThread to self._thread
\* drops the last reference to the previous one: when that thread has not
\* terminated, either the object is deleted, which ends the process before
\* the new thread is started, or it outlives the assignment and both threads
\* live on.
OnCompare ==
    /\ WindowAcceptsInput
    /\ compare_btn_enabled
    /\ LET fa == Strip(file_a_edit)
           fb == Strip(file_b_edit)
       IN  IF PathsMissing(fa, fb)
           THEN /\ modal' = "warning"
                /\ modal_message' = "Please select both File A and File B before comparing."
                /\ UNCHANGED <<compare_btn_enabled, progress_bar_visible,
                               summary_labels, summary_table_rows, diff_text,
                               worker, thread, nruns, run_state, thread_state>>
           ELSE /\ nruns < MaxRuns
                /\ compare_btn_enabled' = BusyControls.enabled
                /\ progress_bar_visible' = BusyControls.progress
                /\ summary_labels' = ClearedResults.labels
                /\ summary_table_rows' = ClearedResults.rows
                /\ diff_text' = ClearedResults.text
                /\ nruns' = nruns + 1
                /\ thread' = nruns + 1
                /\ \/ /\ worker' = CompareWorker(nruns + 1, fa, fb,
                                       ComparisonOptions(only_differences_cb,
                                                         include_attributes_cb,
                                                         include_chunking_cb, "", ""))
                      /\ thread_state' = [thread_state EXCEPT ![nruns + 1] = "running"]
                      /\ run_state' = [run_state EXCEPT ![nruns + 1] = "started"]
                   \/ /\ thread # 0 /\ ThreadAlive(thread)
                      /\ thread_state' = [thread_state EXCEPT ![thread] = "destroyed"]
                      /\ UNCHANGED <<worker, run_state>>
                /\ UNCHANGED <<modal, modal_message>>
    /\ UNCHANGED <<file_a_edit, file_b_edit, only_differences_cb,
                   include_attributes_cb, include_chunking_cb, outcome, emitted,
                   uiq, handled>>
    /\ UNCHANGED notGui

\* The user closes the warning dialog: _on_compare returns.
DismissWarning ==
    /\ ~Aborted
    /\ modal = "warning"
    /\ modal' = "none"
    /\ modal_message' = ""
    /\ UNCHANGED <<file_a_edit, file_b_edit, only_differences_cb,
                   include_attributes_cb, include_chunking_cb, compare_btn_enabled,
                   progress_bar_visible, summary_labels, summary_table_rows,
                   diff_text, worker, thread, nruns, run_state, outcome, emitted,
                   thread_state, uiq, handled>>
    /\ UNCHANGED notGui

\* The thread's started signal calls CompareWorker.run, which calls
\* run_comparison.
WorkerBegin ==
    \E i \in RunIds :
        /\ ~Aborted
        /\ run_state[i] = "started"
        /\ run_state' = [run_state EXCEPT ![i] = "running"]
        /\ UNCHANGED <<file_a_edit, file_b_edit, only_differences_cb,
                       include_attributes_cb, include_chunking_cb,
                       compare_btn_enabled, progress_bar_visible, summary_labels,
                       summary_table_rows, diff_text, modal, modal_message, worker,
                       thread, nruns, outcome, emitted, thread_state, uiq, handled>>
        /\ UNCHANGED notGui

\* run_comparison returns or raises, and CompareWorker.run emits.
WorkerEnd ==
    \E i \in RunIds, out \in Outcomes :
        /\ ~Aborted
        /\ run_state[i] = "running"
        /\ run_state' = [run_state EXCEPT ![i] = "emitted"]
        /\ outcome' = [outcome EXCEPT ![i] = out]
        /\ emitted' = [emitted EXCEPT ![i] = SignalsOf(out)]
        /\ uiq' = uiq \o PostedForAll(i, SignalsOf(out))
        /\ UNCHANGED <<file_a_edit, file_b_edit, only_differences_cb,
                       include_attributes_cb, include_chunking_cb,
                       compare_btn_enabled, progress_bar_visible, summary_labels,
                       summary_table_rows, diff_text, modal, modal_message, worker,
                       thread, nruns, thread_state, handled>>
        /\ UNCHANGED notGui

\* The UI thread runs the posted call of _on_compare_finished(result).
OnCompareFinished ==
    /\ ~Aborted
    /\ uiq # <<>>
    /\ Head(uiq).slot = "_on_compare_finished"
    /\ uiq' = Tail(uiq)
    /\ compare_btn_enabled' = IdleControls.enabled
    /\ progress_bar_visible' = IdleControls.progress
    /\ LET ev == Head(uiq)
           shown == DisplayedResult(ev.result, ev.rows)
       IN  /\ IF ev.result = ""
              THEN UNCHANGED <<summary_labels, summary_table_rows, diff_text>>
              ELSE /\ summary_labels' = shown.labels
                   /\ summary_table_rows' = shown.rows
                   /\ diff_text' = shown.text
           /\ handled' = Append(handled, [sig |-> "finished", run |-> ev.run,
                                          dialog |-> <<>>])
           /\ run_state' = [run_state EXCEPT ![ev.run] = "handled"]
    /\ UNCHANGED <<file_a_edit, file_b_edit, only_differences_cb,
                   include_attributes_cb, include_chunking_cb, modal, modal_message,
                   worker, thread, nruns, outcome, emitted, thread_state>>
    /\ UNCHANGED notGui

\* The text of the critical dialog for a message.
ErrorText(message) == <<"An error occurred while comparing the files:", message>>

\* The UI thread runs the posted call of _on_compare_error(message), up to
\* the critical dialog, which stays open until the user closes it.
OnCompareError ==
    /\ ~Aborted
    /\ uiq # <<>>
    /\ Head(uiq).slot = "_on_compare_error"
    /\ uiq' = Tail(uiq)
    /\ compare_btn_enabled' = IdleControls.enabled
    /\ progress_bar_visible' = IdleControls.progress
    /\ modal' = "critical"
    /\ modal_message' = ErrorText(Head(uiq).message)
    /\ handled' = Append(handled, [sig |-> "error", run |-> Head(uiq).run,
                                   dialog |-> ErrorText(Head(uiq).message)])
    /\ run_state' = [run_state EXCEPT ![Head(uiq).run] = "handled"]
    /\ UNCHANGED <<file_a_edit, file_b_edit, only_differences_cb,
                   include_attributes_cb, include_chunking_cb, summary_labels,
                   summary_table_rows, diff_text, worker, thread, nruns, outcome,
                   emitted, thread_state>>
    /\ UNCHANGED notGui

\* The user closes the critical dialog: _on_compare_error clears the results
\* and returns.
DismissCritical ==
    /\ ~Aborted
    /\ modal = "critical"
    /\ modal' = "none"
    /\ modal_message' = ""
    /\ summary_labels' = ClearedResults.labels
    /\ summary_table_rows' = ClearedResults.rows
    /\ diff_text' = ClearedResults.text
    /\ UNCHANGED <<file_a_edit, file_b_edit, only_differences_cb,
                   include_attributes_cb, include_chunking_cb, compare_btn_enabled,
                   progress_bar_visible, worker, thread, nruns, run_state, outcome,
                   emitted, thread_state, uiq, handled>>
    /\ UNCHANGED notGui

\* The UI thread runs the posted call of the thread's quit().
ThreadQuit ==
    /\ ~Aborted
    /\ uiq # <<>>
    /\ Head(uiq).slot = "quit"
    /\ uiq' = Tail(uiq)
    /\ thread_state' = [thread_state EXCEPT ![Head(uiq).run] =
                            IF @ = "running" THEN "quitting" ELSE @]
    /\ UNCHANGED <<file_a_edit, file_b_edit, only_differences_cb,
                   include_attributes_cb, include_chunking_cb, compare_btn_enabled,
                   progress_bar_visible, summary_labels, summary_table_rows,
                   diff_text, modal, modal_message, worker, thread, nruns,
                   run_state, outcome, emitted, handled>>
    /\ UNCHANGED notGui

\* A thread told to quit leaves its event loop and terminates.
ThreadExit ==
    \E i \in RunIds :
        /\ ~Aborted
        /\ thread_state[i] = "quitting"
        /\ thread_state' = [thread_state EXCEPT ![i] = "finished"]
        /\ UNCHANGED <<file_a_edit, file_b_edit, only_differences_cb,
                       include_attributes_cb, include_chunking_cb,
                       compare_btn_enabled, progress_bar_visible, summary_labels,
                       summary_table_rows, diff_text, modal, modal_message, worker,
                       thread, nruns, run_state, outcome, emitted, uiq, handled>>
        /\ UNCHANGED notGui

\* MainWindow.__init__
GuiInit ==
    /\ file_a_edit = <<>>
    /\ file_b_edit = <<>>
    /\ only_differences_cb = FALSE
    /\ include_attributes_cb = TRUE
    /\ include_chunking_cb = FALSE
    /\ compare_btn_enabled = TRUE
    /\ progress_bar_visible = FALSE
    /\ summary_labels = "no comparison yet"
    /\ summary_table_rows = 0
    /\ diff_text = ""
    /\ modal = "none"
    /\ modal_message = ""
    /\ worker = NoWorker
    /\ thread = 0
    /\ nruns = 0
    /\ run_state = [i \in RunIds |-> "none"]
    /\ outcome = [i \in RunIds |-> NoOutcome]
    /\ emitted = [i \in RunIds |-> <<>>]
    /\ thread_state = [i \in RunIds |-> "none"]
    /\ uiq = <<>>
    /\ handled = <<>>

\* No window exists.
GuiParked ==
    /\ file_a_edit = <<>>
    /\ file_b_edit = <<>>
    /\ only_differences_cb = FALSE
    /\ include_attributes_cb = TRUE
    /\ include_chunking_cb = FALSE
    /\ compare_btn_enabled = FALSE
    /\ progress_bar_visible = FALSE
    /\ summary_labels = ""
    /\ summary_table_rows = 0
    /\ diff_text = ""
    /\ modal = "parked"
    /\ modal_message = ""
    /\ worker = NoWorker
    /\ thread = 0
    /\ nruns = 0
    /\ run_state = [i \in RunIds |-> "none"]
    /\ outcome = [i \in RunIds |-> NoOutcome]
    /\ emitted = [i \in RunIds |-> <<>>]
    /\ thread_state = [i \in RunIds |-> "none"]
    /\ uiq = <<>>
    /\ handled = <<>>

\* ---------------------------------------------------------- specifications

\* _parse_csv_for_summary_and_diffs on every file of Files.
Init == ParserInit /\ RunParked /\ GuiParked

Next == ReadHeader \/ ParseRow \/ ParseReturn

Spec == Init /\ [][Next]_vars

\* run_comparison on every choice of input paths, options and files on disk.
InitRun == RunInit /\ ParserParked /\ GuiParked

NextRun ==
    \/ EnsurePathA \/ EnsurePathB \/ ValidateTypeA \/ ValidateTypeB
    \/ DimensionsA \/ DimensionsB \/ VariablesA \/ VariablesB
    \/ ChooseReports \/ Compare \/ Finish

SpecRun == InitRun /\ [][NextRun]_vars

\* The main window from its construction on: the user's actions, the worker
\* threads and the UI thread's event loop.
InitGui == GuiInit /\ ParserParked /\ RunParked

NextGui ==
    \/ BrowseA \/ BrowseB \/ ToggleOption
    \/ OnCompare \/ DismissWarning
    \/ WorkerBegin \/ WorkerEnd
    \/ OnCompareFinished \/ OnCompareError \/ DismissCritical
    \/ ThreadQuit \/ ThreadExit

\* A started thread runs, and the UI thread's event loop delivers what was
\* posted to it; the user is free never to act.
SpecGui ==
    /\ InitGui
    /\ [][NextGui]_vars
    /\ WF_vars(WorkerBegin)
    /\ WF_vars(WorkerEnd)
    /\ WF_vars(ThreadExit)
    /\ WF_vars(OnCompareFinished)
    /\ WF_vars(OnCompareError)
    /\ WF_vars(ThreadQuit)

\* ================================================================ claims
\* ------------------------------------------------------- parser, C1 .. C5

\* A row whose fourth column exists and, trimmed, is the difference marker.
MarkedRow(row) == Len(row) >= 4 /\ Strip(row[4]) = DiffMarker

TripleOf(row) == <<Strip(row[1]), Strip(row[2]), Strip(row[3])>>

MarkedTriples(rows) ==
    LET sel == SelectSeq(rows, MarkedRow)
    IN  [i \in 1..Len(sel) |-> TripleOf(sel[i])]

\* C1: the returned detail list is exactly the (description, value_a, value_b)
\* triples, trimmed as the parser trims them, of the data rows whose fourth
\* column trimmed is ***, in file order; it is never longer than the number of
\* data rows, and the parser returns for every file.
C1_DetailsAreMarkedRows ==
    /\ pc # "raised"
    /\ pc = "done" =>
          /\ ret.details = MarkedTriples(DataOf(file))
          /\ Len(ret.details) <= Len(DataOf(file))
    /\ pc = "rows" => details = MarkedTriples(SubSeq(file, 2, pos - 1))

\* C1 witness: a file of two data rows, the first a three-column row (no
\* marker column), the second a marked row with padded columns, was parsed.
C1_Witness ==
    /\ pc = "done"
    /\ Len(file) = 3
    /\ Len(file[2]) = 3
    /\ Len(file[3]) = 4 /\ file[3][4] # DiffMarker
    /\ Len(ret.details) = 1

\* C2 (as claimed): the returned attribute-difference count is the number of
\* detail rows whose description is not one of dtype, dimensions, shape,
\* chunksize.
C2_AttrCountSkipsStructural ==
    pc = "done" =>
        ret.attribute_difference_count =
            Cardinality({i \in 1..Len(ret.details) :
                            ret.details[i][1] \notin StructuralLabels})

\* A step of the row loop over a row of at least three columns.
RowStep == pc = "rows" /\ pos <= Len(file) /\ pos' = pos + 1 /\ Len(file[pos]) >= 3

\* "Numeric" as the claim uses it: a non-empty run of decimal digits.
Numeric(s) == IsDecimal(s)

\* The shared count the claim prescribes: value_a if numeric, else value_b
\* (where value_b is no integer either the claim prescribes nothing).
ClaimShared(new, val_a, val_b) ==
    IF Numeric(val_a) THEN IntVal(val_a)
    ELSE IF IntOk(val_b) THEN IntVal(val_b) ELSE new

ClaimNonShared(val) == IF Numeric(val) THEN IntVal(val) ELSE 0

\* C3 (as claimed): on every row of at least three columns, whatever its
\* marker, a description containing a shared key sets the shared count to
\* value_a if numeric else to value_b, a description containing a non-shared
\* key sets only-in-A / only-in-B to value_a / value_b if numeric else 0, and
\* a counter whose key the description does not contain is unchanged.
C3_SummaryCounters ==
    [][RowStep =>
        LET info == Info(file[pos])
            val_a == ValA(file[pos])
            val_b == ValB(file[pos])
        IN  /\ var_shared' = IF Contains(info, KeySharedVars)
                             THEN ClaimShared(var_shared', val_a, val_b)
                             ELSE var_shared
            /\ grp_shared' = IF Contains(info, KeySharedGroups)
                             THEN ClaimShared(grp_shared', val_a, val_b)
                             ELSE grp_shared
            /\ var_left' = IF Contains(info, KeyNonSharedVars)
                           THEN ClaimNonShared(val_a) ELSE var_left
            /\ var_right' = IF Contains(info, KeyNonSharedVars)
                            THEN ClaimNonShared(val_b) ELSE var_right
            /\ grp_left' = IF Contains(info, KeyNonSharedGroups)
                           THEN ClaimNonShared(val_a) ELSE grp_left
            /\ grp_right' = IF Contains(info, KeyNonSharedGroups)
                            THEN ClaimNonShared(val_b) ELSE grp_right]_vars

\* The value a shared-count row reads: value_a if it is all digits, else value_b.
SharedTarget(val_a, val_b) == IF IsDigit(val_a) THEN val_a ELSE val_b

\* C4 (as claimed): a summary row whose targeted value does not parse as an
\* integer leaves the targeted counter at its prior value, and the parser
\* never raises.
C4_BadNumberKeepsPrior ==
    [][RowStep =>
        LET info == Info(file[pos])
            val_a == ValA(file[pos])
            val_b == ValB(file[pos])
        IN  /\ pc' # "raised"
            /\ (Contains(info, KeySharedVars) /\ ~IntOk(SharedTarget(val_a, val_b)))
                  => var_shared' = var_shared
            /\ (Contains(info, KeySharedGroups) /\ ~IntOk(SharedTarget(val_a, val_b)))
                  => grp_shared' = grp_shared
            /\ (Contains(info, KeyNonSharedVars) /\ ~IntOk(val_a))
                  => var_left' = var_left
            /\ (Contains(info, KeyNonSharedVars) /\ ~IntOk(val_b))
                  => var_right' = var_right
            /\ (Contains(info, KeyNonSharedGroups) /\ ~IntOk(val_a))
                  => grp_left' = grp_left
            /\ (Contains(info, KeyNonSharedGroups) /\ ~IntOk(val_b))
                  => grp_right' = grp_right]_vars

\* isdigit() accepts the value and int() rejects it.
DigitButNoInt(s) == IsDigit(s) /\ ~IntOk(s)

\* What a non-shared row does to its pair of counters, case by case.
NonSharedCases(left, right, new_left, new_right, val_a, val_b) ==
    /\ DigitButNoInt(val_a) => new_left = left /\ new_right = right
    /\ ~IsDigit(val_a) => new_left = 0
    /\ (~DigitButNoInt(val_a) /\ ~IsDigit(val_b)) => new_right = 0
    /\ (~DigitButNoInt(val_a) /\ DigitButNoInt(val_b)) => new_right = right

\* C4 (amended): the parser never raises on malformed numeric text.  A
\* shared-count row whose read value (value_a if all digits, else value_b) is
\* no integer leaves the shared count at its prior value.  A non-shared row
\* stores 0, not the prior value, for a value that is not all digits; only a
\* value that isdigit() accepts and int() rejects skips the update, of its own
\* counter and, when it is value_a, of only-in-B as well.
C4_BadNumberAmended ==
    [][RowStep =>
        LET info == Info(file[pos])
            val_a == ValA(file[pos])
            val_b == ValB(file[pos])
        IN  /\ pc' # "raised"
            /\ (Contains(info, KeySharedVars) /\ ~IntOk(SharedTarget(val_a, val_b)))
                  => var_shared' = var_shared
            /\ (Contains(info, KeySharedGroups) /\ ~IntOk(SharedTarget(val_a, val_b)))
                  => grp_shared' = grp_shared
            /\ Contains(info, KeyNonSharedVars)
                  => NonSharedCases(var_left, var_right, var_left', var_right',
                                    val_a, val_b)
            /\ Contains(info, KeyNonSharedGroups)
                  => NonSharedCases(grp_left, grp_right, grp_left', grp_right',
                                    val_a, val_b)]_vars

\* C4 witness: a non-shared-variables row set only-in-A to a positive count,
\* and the next such row, whose value_a is not a number, put it back to 0.
C4_Witness ==
    /\ pc = "rows" /\ pos = 4
    /\ Len(file[2]) >= 3 /\ Contains(Info(file[2]), KeyNonSharedVars)
    /\ IsDecimal(ValA(file[2])) /\ IntVal(ValA(file[2])) > 0
    /\ Len(file[3]) >= 3 /\ Contains(Info(file[3]), KeyNonSharedVars)
    /\ ~IntOk(ValA(file[3]))
    /\ var_left = 0

RemoveAt(s, i) == SubSeq(s, 1, i - 1) \o SubSeq(s, i + 1, Len(s))

\* C5: a data row of fewer than 3 columns changes no output: the parser
\* returns, and returns what it returns for the file without that row.
C5_ShortRowIsAbsent ==
    /\ pc # "raised"
    /\ pc = "done" =>
          \A i \in 2..Len(file) :
              Len(file[i]) < 3 =>
                  ret = ReturnValue(ParseRows(InitLocals, DataOf(RemoveAt(file, i))))

\* C5 witness: a two-column row that carries a summary key and a number was
\* parsed after a row that set counters, and the counters are still those.
C5_Witness ==
    /\ pc = "done"
    /\ Len(file) = 3
    /\ Len(file[3]) = 2 /\ Contains(Strip(file[3][1]), KeyNonSharedVars)
    /\ Len(file[2]) >= 3 /\ Contains(Info(file[2]), KeyNonSharedVars)
    /\ ret.var_left = 3 /\ ret.var_right = 2

\* ------------------------------------------------- run_comparison, C6, C10

\* C6: every call of ncompare.compare that run_comparison makes carries
\* only_diffs = options.only_differences, show_attributes =
\* options.include_attributes and show_chunks = options.include_chunking,
\* for each of the eight combinations of the three flags.
C6_FlagsForwarded ==
    \A i \in 1..Len(calls) :
        /\ calls[i].only_diffs = options.only_differences
        /\ calls[i].show_attributes = options.include_attributes
        /\ calls[i].show_chunks = options.include_chunking

\* C6 witness: the call was made with options whose three flags are not all
\* alike, so an exchange of two of them would show.
C6_Witness ==
    /\ Len(calls) = 1
    /\ options.only_differences
    /\ ~options.include_attributes
    /\ options.include_chunking
    /\ calls[1].only_diffs /\ calls[1].show_chunks

\* C10 (as claimed): whatever the paths and the options, report paths
\* included, both input files hold after and during run_comparison what they
\* held when it was called.
C10_InputsUnchanged ==
    rpc # "parked" => fs[file_a] = fs0[file_a] /\ fs[file_b] = fs0[file_b]

\* --------------------------------------------- MainWindow, C7, C8 and C9

\* C7: a run of CompareWorker.run that has ended emitted exactly one signal,
\* once: finished with the result when run_comparison returned, error with
\* the exception's message when it raised; a run that has not ended emitted
\* nothing.
C7_ExactlyOneSignal ==
    \A i \in RunIds :
        /\ run_state[i] \in {"none", "started", "running"} => emitted[i] = <<>>
        /\ run_state[i] \in {"emitted", "handled"} =>
              /\ Len(emitted[i]) = 1
              /\ outcome[i].kind = "returns" =>
                    /\ emitted[i][1].sig = "finished"
                    /\ emitted[i][1].result = outcome[i].id
              /\ outcome[i].kind = "raises" =>
                    /\ emitted[i][1].sig = "error"
                    /\ emitted[i][1].message = outcome[i].message

\* C7 witness: one run ended with finished and another with error.
C7_Witness ==
    \E i, j \in RunIds :
        /\ run_state[i] = "handled" /\ emitted[i][1].sig = "finished"
        /\ run_state[j] = "emitted" /\ emitted[j][1].sig = "error"

\* A run that _on_compare started and whose signal the UI has not handled.
InFlight(i) == run_state[i] \in {"started", "running", "emitted"}

\* C8: while a started run's signal is unhandled the Compare button is
\* disabled and the progress bar visible; at most one run is in that state;
\* when every started run's signal has been handled the button is enabled
\* and the bar hidden, as long as the process lives; and every started run
\* leads to its signal being handled with the button enabled again.
C8_TriggerDisabledWhileRunning ==
    /\ [](\A i \in RunIds :
             InFlight(i) => ~compare_btn_enabled /\ progress_bar_visible)
    /\ [](Cardinality({i \in RunIds : InFlight(i)}) <= 1)
    /\ []((nruns > 0 /\ ~Aborted /\ \A i \in RunIds : ~InFlight(i))
             => compare_btn_enabled /\ ~progress_bar_visible)
    /\ \A i \in RunIds :
          (run_state[i] = "started")
              ~> (run_state[i] = "handled" /\ compare_btn_enabled
                  /\ ~progress_bar_visible)

\* C8 witness: a second run is executing, after a first one was handled, with
\* the button disabled.
C8_Witness ==
    /\ MaxRuns >= 2
    /\ run_state[1] = "handled"
    /\ run_state[2] = "running"
    /\ ~compare_btn_enabled
    /\ progress_bar_visible

LastHandled == handled[Len(handled)]

\* C9: once the error signal of the latest run is handled, the button is
\* enabled, the progress bar hidden, the critical dialog showed the raw
\* message, the summary table has no row and the difference text is empty,
\* while the dialog is open and after it is closed.
C9_ErrorClearsResults ==
    (handled # <<>> /\ LastHandled.sig = "error" /\ LastHandled.run = nruns) =>
        /\ compare_btn_enabled
        /\ ~progress_bar_visible
        /\ LastHandled.dialog = ErrorText(outcome[LastHandled.run].message)
        /\ modal = "critical" => modal_message = LastHandled.dialog
        /\ summary_table_rows = 0
        /\ diff_text = ""
        /\ summary_labels = "running comparison"

\* C9 witness: a run that displayed a result with rows was followed by a run
\* that failed, and its dialog was closed.
C9_Witness ==
    /\ Len(handled) = 2
    /\ handled[1].sig = "finished" /\ outcome[handled[1].run].rows > 0
    /\ handled[2].sig = "error"
    /\ modal = "none"
    /\ summary_table_rows = 0

\* ------------------------------------------------------ run_comparison, C11

\* The exceptions of the statements before the ncompare.compare call.
EarlyFailures ==
    {"path A not found", "path B not found",
     "file A type not supported", "file B type not supported",
     "dims_a", "dims_b", "vars_a", "vars_b"}

\* The statements of run_comparison in the order of the claim: each pair is
\* a statement and the one that may follow it.
StepOrder ==
    {<<"ensure_a", "ensure_b">>, <<"ensure_b", "type_a">>, <<"type_a", "type_b">>,
     <<"type_b", "dims_a">>, <<"dims_a", "dims_b">>, <<"dims_b", "vars_a">>,
     <<"vars_a", "vars_b">>, <<"vars_b", "reports">>, <<"reports", "compare">>,
     <<"compare", "finish">>, <<"finish", "returned">>}
    \cup {<<at, "raised">> : at \in {"ensure_a", "ensure_b", "type_a", "type_b",
                                     "dims_a", "dims_b", "vars_a", "vars_b",
                                     "compare", "finish"}}

\* C11: run_comparison takes its statements in one fixed order; once a path
\* validation, a file-type validation or a summary getter has raised, the
\* run is over with that exception: ncompare.compare was not called, no
\* report path was chosen, nothing was written, no result is returned and
\* nothing happens afterwards.  ncompare.compare is called at most once.
C11_StopsAtFirstFailure ==
    /\ [](run_exc \in EarlyFailures =>
            /\ rpc = "raised"
            /\ calls = <<>>
            /\ report_txt = NoPath /\ report_csv = NoPath
            /\ fs = fs0)
    /\ [](rpc = "raised" <=> run_exc # NoExc)
    /\ [](Len(calls) <= 1)
    /\ [][rpc' # rpc => <<rpc, rpc'>> \in StepOrder]_vars
    /\ [][rpc = "raised" => UNCHANGED runVars]_vars

\* C11 witness: the last of the four getters raised, after both validations
\* of both files had passed, and the run ended there.
C11_Witness ==
    /\ rpc = "raised"
    /\ run_exc = "vars_b"
    /\ result.variables_a # ""
    /\ calls = <<>>

\* ------------------------------------------------------ run_comparison, C12

\* The CSV destination of the claim: the caller's report_csv_path when it is
\* not empty, else the temporary path.
CsvDestination ==
    IF options.report_csv_path # "" THEN options.report_csv_path ELSE TempCsv

\* The eight fields of a result that the parser feeds, in the parser's order.
ParserFields(res) ==
    <<res.variables_only_in_a, res.variables_only_in_b, res.variables_shared,
      res.groups_only_in_a, res.groups_only_in_b, res.groups_shared,
      res.attribute_difference_count, res.difference_details>>

\* The eight values the parser returns for the rows f, in order.
ParserOutputs(f) ==
    LET r == ReturnValue(ParseRows(InitLocals, DataOf(f)))
    IN  <<r.var_left, r.var_right, r.var_shared,
          r.grp_left, r.grp_right, r.grp_shared,
          r.attribute_difference_count, r.details>>

\* C12: the CSV path handed to ncompare.compare and tested afterwards is the
\* caller's report_csv_path when not empty, else the temporary path.  In the
\* result run_comparison returns, total_differences is what the call
\* returned; when a file exists at the CSV destination the six counts, the
\* attribute-difference count and the detail rows are the parser's outputs
\* for that file and report_csv_path is the destination; when none exists
\* they are 0, the empty list and the empty path.
C12_CsvMergedIffExists ==
    /\ rpc \in {"compare", "finish", "returned"} => report_csv = CsvDestination
    /\ \A i \in 1..Len(calls) : calls[i].file_csv = CsvDestination
    /\ rpc = "returned" =>
          /\ result.total_differences = total
          /\ IF fs[CsvDestination] # Absent
             THEN /\ ParserFields(result) =
                        ParserOutputs(ReadCsv(fs[CsvDestination]).rows)
                  /\ result.report_csv_path = CsvDestination
             ELSE /\ ParserFields(result) = <<0, 0, 0, 0, 0, 0, 0, <<>>>>
                  /\ result.report_csv_path = ""

\* C12 witness: no CSV path was given, ncompare wrote its report to the
\* temporary path and returned 1, and the returned result carries the
\* report's counts.
C12_Witness ==
    /\ rpc = "returned"
    /\ options.report_csv_path = ""
    /\ fs[TempCsv] = "csv summary"
    /\ result.total_differences = 1
    /\ result.variables_only_in_a = 3 /\ result.variables_only_in_b = 2
    /\ result.variables_shared = 5
    /\ result.report_csv_path = TempCsv

\* ---------------------------------------------------------- MainWindow, C13

\* C13 (as claimed): at most one worker thread is alive at any time, and
\* whenever _on_compare has created a newer QThread every thread before it
\* has terminated: none is still running, none has yet to be told to quit,
\* and none was destroyed while it ran.
C13_OneThreadAlive ==
    /\ Cardinality({i \in RunIds : ThreadAlive(i)}) <= 1
    /\ \A i \in RunIds : (0 < i /\ i < thread) => thread_state[i] = "finished"

\* ---------------------------------------------------------- MainWindow, C14

\* The text of one of the two line edits is empty once trimmed.
PathEmpty == Strip(file_a_edit) = <<>> \/ Strip(file_b_edit) = <<>>

\* What the claim says a click with a path missing leaves as it was.
KeptByWarning ==
    <<worker, thread, nruns, run_state, thread_state, compare_btn_enabled,
      progress_bar_visible, summary_labels, summary_table_rows, diff_text>>

\* C14: while a path is empty after trimming no step creates a worker or a
\* thread; the click then only opens the warning dialog, leaving the worker,
\* the thread, the button (enabled), the progress bar (hidden), the labels,
\* the table and the difference text as they were, and they stay so while
\* the dialog is open and when it is closed.
C14_MissingPathStartsNothing ==
    /\ [][PathEmpty => UNCHANGED <<worker, thread, nruns, run_state, thread_state>>]_vars
    /\ [][(modal = "none" /\ modal' = "warning") =>
             /\ PathEmpty
             /\ UNCHANGED KeptByWarning
             /\ compare_btn_enabled' /\ ~progress_bar_visible']_vars
    /\ [][modal = "warning" => UNCHANGED KeptByWarning]_vars
    /\ [](modal = "warning" => compare_btn_enabled /\ ~progress_bar_visible)

\* C14 witness: Compare was clicked with File A selected and File B not, and
\* the warning dialog is open.
C14_Witness ==
    /\ modal = "warning"
    /\ file_a_edit = PathA /\ file_b_edit = <<>>
    /\ nruns = 0 /\ thread = 0 /\ worker = NoWorker
    /\ compare_btn_enabled /\ ~progress_bar_visible
    /\ summary_labels = "no comparison yet"

====
